---- MODULE Spec2Model ----
(***************************************************************************)
(* A model of the windows-kits crate (src/src/lib.rs): the WindowsKits     *)
(* resolver, which reads the SDK installation root from the registry once  *)
(* at construction, maps a DirectoryType to its category directory and     *)
(* selects a version directory by enumerating that category directory.     *)
(*                                                                         *)
(* Strings and paths are sequences of bytes (naturals below 256), so that  *)
(* joining, prefix tests, text decoding and ordering are computed and not  *)
(* assumed.  The registry and the filesystem are the environment: they are *)
(* state variables that environment actions change between calls.          *)
(***************************************************************************)
EXTENDS Integers, Sequences, FiniteSets, TLC

VARIABLES
    reg,        \* the registry: state of the Installed Roots key / KitsRoot10
    fs,         \* the filesystem: node of every category directory path
    kits,       \* the WindowsKits value, when one has been constructed
    rootAtNew,  \* history: the string the registry held when new() succeeded
    changes,    \* number of environment changes made so far (bounded)
    last        \* the most recent API call and what it returned

vars == <<reg, fs, kits, rootAtNew, changes, last>>

(***************************************************************************)
(* Bounds of the model.                                                    *)
(***************************************************************************)
\* Environment changes (registry writes, filesystem changes) in a behaviour.
MaxChanges == 3
\* Entries of the category directory a listing is drawn from.
MaxEntries == 3

(***************************************************************************)
(* Byte strings.                                                           *)
(***************************************************************************)
\* "bin", "Include", "Lib": the literals of get_dir.
BIN == <<98, 105, 110>>
INCLUDE == <<73, 110, 99, 108, 117, 100, 101>>
LIB == <<76, 105, 98>>
\* "10.": the literal of the starts_with filter.
PREFIX10 == <<49, 48, 46>>

\* Installation roots the registry may name: C:\Kits\10\ (trailing separator,
\* as the SDK installer writes it) and D:\SDK (no trailing separator).
ROOT_C == <<67, 58, 92, 75, 105, 116, 115, 92, 49, 48, 92>>
ROOT_D == <<68, 58, 92, 83, 68, 75>>
Roots == {ROOT_C, ROOT_D}

\* Entry names: 10.0.19041.0, 10.9, 10.10, 9.0, notes.txt, and "10." followed
\* by an unpaired surrogate (a name that is no text: to_str gives None).
N_19041 == <<49, 48, 46, 48, 46, 49, 57, 48, 52, 49, 46, 48>>
N_10_9 == <<49, 48, 46, 57>>
N_10_10 == <<49, 48, 46, 49, 48>>
N_9_0 == <<57, 46, 48>>
N_NOTES == <<110, 111, 116, 101, 115, 46, 116, 120, 116>>
N_10_BAD == <<49, 48, 46, 237, 160, 128>>
Names == {N_19041, N_10_9, N_10_10, N_9_0, N_NOTES, N_10_BAD}

DirectoryType == {"Binaries", "Headers", "Libraries"}

\* Byte-wise lexicographic order on byte strings: -1, 0, 1 (Ord for OsStr).
RECURSIVE CmpBytes(_, _)
CmpBytes(a, b) ==
    IF a = <<>> /\ b = <<>> THEN 0
    ELSE IF a = <<>> THEN -1
    ELSE IF b = <<>> THEN 1
    ELSE IF Head(a) < Head(b) THEN -1
    ELSE IF Head(a) > Head(b) THEN 1
    ELSE CmpBytes(Tail(a), Tail(b))

\* str::starts_with.
StartsWith(s, p) == Len(s) >= Len(p) /\ SubSeq(s, 1, Len(p)) = p

IsSep(b) == b \in {47, 92}

IsCont(b) == b >= 128 /\ b <= 191

\* OsStr::to_str succeeds: the bytes are well-formed UTF-8 (surrogates, which
\* the OS string encoding can hold, are not text).
RECURSIVE IsUtf8(_)
IsUtf8(s) ==
    IF s = <<>> THEN TRUE
    ELSE LET b == s[1]
             n == Len(s)
         IN IF b < 128 THEN IsUtf8(Tail(s))
            ELSE IF b >= 194 /\ b <= 223
                 THEN n >= 2 /\ IsCont(s[2]) /\ IsUtf8(SubSeq(s, 3, n))
            ELSE IF b >= 224 /\ b <= 239
                 THEN /\ n >= 3
                      /\ IsCont(s[2]) /\ IsCont(s[3])
                      /\ (b = 224 => s[2] >= 160)
                      /\ (b = 237 => s[2] <= 159)
                      /\ IsUtf8(SubSeq(s, 4, n))
            ELSE IF b >= 240 /\ b <= 244
                 THEN /\ n >= 4
                      /\ IsCont(s[2]) /\ IsCont(s[3]) /\ IsCont(s[4])
                      /\ (b = 240 => s[2] >= 144)
                      /\ (b = 244 => s[2] <= 143)
                      /\ IsUtf8(SubSeq(s, 5, n))
            ELSE FALSE

(***************************************************************************)
(* Paths.                                                                  *)
(***************************************************************************)
\* PathBuf::join with a relative one-component name: a separator is added
\* unless the path is empty or already ends with one.
Join(p, name) ==
    IF p = <<>> \/ IsSep(p[Len(p)]) THEN p \o name ELSE p \o <<92>> \o name

\* Path::components: the non-empty runs between separators (the drive prefix
\* is a run like the others and the root directory is not listed, which
\* leaves the last component and the order of paths under one root as they
\* are).  Runs cuts p at the separator positions seps, from the last one
\* back; hi is the end of the run being cut.
RECURSIVE Runs(_, _, _)
Runs(p, seps, hi) ==
    IF seps = {}
    THEN (IF hi >= 1 THEN <<SubSeq(p, 1, hi)>> ELSE <<>>)
    ELSE LET i == CHOOSE j \in seps : \A k \in seps : k <= j
         IN IF i < hi
            THEN Append(Runs(p, seps \ {i}, i - 1), SubSeq(p, i + 1, hi))
            ELSE Runs(p, seps \ {i}, i - 1)

Components(p) == Runs(p, {i \in 1..Len(p) : IsSep(p[i])}, Len(p))

\* Ord for PathBuf: component by component, each component byte-wise.
RECURSIVE CmpComponents(_, _)
CmpComponents(a, b) ==
    IF a = <<>> /\ b = <<>> THEN 0
    ELSE IF a = <<>> THEN -1
    ELSE IF b = <<>> THEN 1
    ELSE LET c == CmpBytes(Head(a), Head(b))
         IN IF c # 0 THEN c ELSE CmpComponents(Tail(a), Tail(b))

\* A variant of CmpPath that orders paths by length before bytes.
CmpPathShortlex(p, q) ==
    IF Len(p) < Len(q) THEN -1
    ELSE IF Len(p) > Len(q) THEN 1
    ELSE CmpBytes(p, q)

CmpPath(p, q) == CmpComponents(Components(p), Components(q))

(***************************************************************************)
(* Results.                                                                *)
(***************************************************************************)
Ok(p) == [tag |-> "Ok", path |-> p]
IoError == [tag |-> "IoError", path |-> <<>>]
DirectoryNotFound == [tag |-> "DirectoryNotFound", path |-> <<>>]

(***************************************************************************)
(* The registry.                                                           *)
(***************************************************************************)
\* The key may be absent, the value absent, the value of another type than
\* a string, or a string.
RegStates ==
    {[kind |-> k, value |-> <<>>] : k \in {"no_key", "no_value", "wrong_type"}}
    \cup {[kind |-> "sz", value |-> r] : r \in Roots}

NoKits == [exists |-> FALSE, path |-> <<>>]

\* A variant of new that falls back to a default root when the registry
\* gives none.
new_default(r) ==
    IF r.kind = "sz"
    THEN [res |-> Ok(r.value), self |-> [exists |-> TRUE, path |-> r.value],
          reads |-> <<"open_subkey", "get_value">>]
    ELSE [res |-> Ok(ROOT_C), self |-> [exists |-> TRUE, path |-> ROOT_C],
          reads |-> <<"open_subkey", "get_value">>]

\* WindowsKits::new: open_subkey(key)?.get_value("KitsRoot10")?, then
\* Ok(Self { path: dir.into() }).  The registry operations made are listed
\* in reads.
new(r) ==
    IF r.kind = "no_key"
    THEN [res |-> IoError, self |-> NoKits, reads |-> <<"open_subkey">>]
    ELSE IF r.kind # "sz"
    THEN [res |-> IoError, self |-> NoKits,
          reads |-> <<"open_subkey", "get_value">>]
    ELSE [res |-> Ok(r.value), self |-> [exists |-> TRUE, path |-> r.value],
          reads |-> <<"open_subkey", "get_value">>]

\* A variant of path that asks the registry again.
path_requery(self) == IF reg.kind = "sz" THEN reg.value ELSE self.path

\* WindowsKits::path: a clone of the stored path.
path(self) == self.path

\* A variant of Subdir that spells the headers directory "include".
Subdir_lowercase(directory_type) ==
    CASE directory_type = "Binaries" -> BIN
      [] directory_type = "Headers" -> <<105, 110, 99, 108, 117, 100, 101>>
      [] directory_type = "Libraries" -> LIB

\* The match of get_dir.
Subdir(directory_type) ==
    CASE directory_type = "Binaries" -> BIN
      [] directory_type = "Headers" -> INCLUDE
      [] directory_type = "Libraries" -> LIB

\* WindowsKits::get_dir.
get_dir(self, directory_type) == Join(path(self), Subdir(directory_type))

(***************************************************************************)
(* The filesystem.                                                         *)
(***************************************************************************)
\* The category directories of every root the registry may name.
Dirs == {Join(r, Subdir(t)) : r \in Roots, t \in DirectoryType}

\* An entry of a directory: its name, whether it is a directory, and whether
\* the enumeration can read it (ok = FALSE: the item is an Err, and the kind
\* of the entry is never observed; it is recorded as a directory).
Variants == {v \in [is_dir : BOOLEAN, ok : BOOLEAN] : ~v.ok => v.is_dir}

Entry(n, v) == [name |-> n, is_dir |-> v.is_dir, ok |-> v.ok]

\* What an SDK installer and a user put into a category directory while a
\* resolver is in use: the version directories 10.9 and 10.10, and the file
\* notes.txt.
InstallEntries ==
    {Entry(N_10_9, [is_dir |-> TRUE, ok |-> TRUE]),
     Entry(N_10_10, [is_dir |-> TRUE, ok |-> TRUE]),
     Entry(N_NOTES, [is_dir |-> FALSE, ok |-> TRUE])}

Missing == [kind |-> "missing", entries |-> {}]
EmptyDir == [kind |-> "dir", entries |-> {}]

\* The node at a path.
Node(p) == IF p \in DOMAIN fs THEN fs[p] ELSE Missing

\* All orders in which a set of entries can be yielded.
RECURSIVE Perms(_)
Perms(S) ==
    IF S = {} THEN {<<>>}
    ELSE UNION {{<<x>> \o q : q \in Perms(S \ {x})} : x \in S}

\* Path::read_dir: fails unless the path is a directory that can be listed;
\* otherwise yields, in the order given, one item per entry: the entry's
\* path, or an error.
read_dir(p, order) ==
    IF Node(p).kind # "dir" THEN [tag |-> "IoError", items |-> <<>>]
    ELSE [tag |-> "Ok",
          items |-> [i \in 1..Len(order) |->
                       IF order[i].ok
                       THEN [ok |-> TRUE, path |-> Join(p, order[i].name)]
                       ELSE [ok |-> FALSE, path |-> <<>>]]]

\* The closure of filter(): the last component, as text, starts with "10.".
IsVersionPath(p) ==
    LET c == Components(p)
    IN /\ c # <<>>
       /\ IsUtf8(c[Len(c)])
       /\ StartsWith(c[Len(c)], PREFIX10)

\* A variant of MaxVersion that keeps the last version path yielded
\* (last() in place of max()).
RECURSIVE LastVersion(_, _)
LastVersion(items, acc) ==
    IF items = <<>> THEN acc
    ELSE LET it == Head(items)
         IN IF ~it.ok \/ ~IsVersionPath(it.path)
            THEN LastVersion(Tail(items), acc)
            ELSE LastVersion(Tail(items), <<it.path>>)

\* filter_map(ok).map(path).filter(..).max(): Iterator::max keeps the later
\* of two equal items.  acc is <<>> (None) or <<p>> (Some(p)).
RECURSIVE MaxVersion(_, _)
MaxVersion(items, acc) ==
    IF items = <<>> THEN acc
    ELSE LET it == Head(items)
         IN IF ~it.ok \/ ~IsVersionPath(it.path)
            THEN MaxVersion(Tail(items), acc)
            ELSE IF acc = <<>> \/ CmpPath(acc[1], it.path) <= 0
                 THEN MaxVersion(Tail(items), <<it.path>>)
                 ELSE MaxVersion(Tail(items), acc)

\* A variant of get_version_dir that reports a directory it cannot list as
\* DirectoryNotFound.
get_version_dir_notfound(self, directory_type, order) ==
    LET dir == read_dir(get_dir(self, directory_type), order)
        m == MaxVersion(dir.items, <<>>)
    IN IF dir.tag # "Ok" \/ m = <<>> THEN DirectoryNotFound ELSE Ok(m[1])

\* A variant of get_version_dir that propagates the error of an entry it
\* cannot read (collecting the items with ? in place of filter_map(ok)).
get_version_dir_strict(self, directory_type, order) ==
    LET dir == read_dir(get_dir(self, directory_type), order)
    IN IF dir.tag # "Ok" THEN IoError
       ELSE IF \E i \in 1..Len(dir.items) : ~dir.items[i].ok THEN IoError
       ELSE LET m == MaxVersion(dir.items, <<>>)
            IN IF m = <<>> THEN DirectoryNotFound ELSE Ok(m[1])

\* A variant of get_version_dir that answers from the preceding successful
\* resolution of the same DirectoryType.
get_version_dir_cached(self, directory_type, order) ==
    IF /\ last.op = "get_version_dir"
       /\ last.cat = directory_type
       /\ last.res.tag = "Ok"
    THEN last.res
    ELSE LET dir == read_dir(get_dir(self, directory_type), order)
         IN IF dir.tag # "Ok" THEN IoError
            ELSE LET m == MaxVersion(dir.items, <<>>)
                 IN IF m = <<>> THEN DirectoryNotFound ELSE Ok(m[1])

\* WindowsKits::get_version_dir, with the order in which read_dir yields.
get_version_dir(self, directory_type, order) ==
    LET dir == read_dir(get_dir(self, directory_type), order)
    IN IF dir.tag # "Ok" THEN IoError
       ELSE LET m == MaxVersion(dir.items, <<>>)
            IN IF m = <<>> THEN DirectoryNotFound ELSE Ok(m[1])

(***************************************************************************)
(* The state machine.                                                      *)
(***************************************************************************)
NoCall == [op |-> "none", cat |-> "none", res |-> Ok(<<>>), reads |-> <<>>,
           fresh |-> FALSE, repeat |-> "no"]

\* The record of a call: fresh until the environment changes next; repeat
\* tells whether the call before it was get_version_dir for the same
\* DirectoryType, and if so whether it returned the same ("same") or
\* something else ("differs").
Call(op, cat, res, reads) ==
    [op |-> op, cat |-> cat, res |-> res, reads |-> reads, fresh |-> TRUE,
     repeat |-> IF op = "get_version_dir" /\ last.op = op /\ last.cat = cat
                THEN (IF last.res = res THEN "same" ELSE "differs")
                ELSE "no"]

\* Before construction: the registry is in any state; the category
\* directories of C:\Kits\10\ exist and are empty, nothing exists under D:\SDK.
Init ==
    /\ reg \in RegStates
    /\ fs = [d \in Dirs |-> IF StartsWith(d, ROOT_C) THEN EmptyDir ELSE Missing]
    /\ kits = NoKits
    /\ rootAtNew = <<>>
    /\ changes = 0
    /\ last = NoCall

\* A call of WindowsKits::new.
New ==
    /\ ~kits.exists
    /\ LET r == new(reg)
       IN /\ kits' = r.self
          /\ rootAtNew' = IF r.res.tag = "Ok" THEN reg.value ELSE rootAtNew
          /\ last' = Call("new", "none", r.res, r.reads)
    /\ UNCHANGED <<reg, fs, changes>>

\* A call of path().
Path ==
    /\ kits.exists
    /\ last' = Call("path", "none", Ok(path(kits)), <<>>)
    /\ UNCHANGED <<reg, fs, kits, rootAtNew, changes>>

\* A call of get_dir(directory_type).
GetDir ==
    /\ kits.exists
    /\ \E t \in DirectoryType :
          last' = Call("get_dir", t, Ok(get_dir(kits, t)), <<>>)
    /\ UNCHANGED <<reg, fs, kits, rootAtNew, changes>>

\* A call of get_version_dir(directory_type); the enumeration yields the
\* entries of the directory in any order.
GetVersionDir ==
    /\ kits.exists
    /\ \E t \in DirectoryType :
          \E order \in Perms(Node(get_dir(kits, t)).entries) :
             last' = Call("get_version_dir", t,
                          get_version_dir(kits, t, order), <<>>)
    /\ UNCHANGED <<reg, fs, kits, rootAtNew, changes>>

\* The environment writes the registry.
RegWrite ==
    /\ changes < MaxChanges
    /\ \E r \in RegStates : r # reg /\ reg' = r
    /\ changes' = changes + 1
    /\ last' = [last EXCEPT !.fresh = FALSE]
    /\ UNCHANGED <<fs, kits, rootAtNew>>

\* The environment creates an entry in a category directory.
FsAdd ==
    /\ changes < MaxChanges
    /\ \E d \in Dirs, e \in InstallEntries :
          /\ fs[d].kind = "dir"
          /\ \A x \in fs[d].entries : x.name # e.name
          /\ fs' = [fs EXCEPT ![d].entries = @ \cup {e}]
    /\ changes' = changes + 1
    /\ last' = [last EXCEPT !.fresh = FALSE]
    /\ UNCHANGED <<reg, kits, rootAtNew>>

\* The environment removes an entry from a category directory.
FsRemove ==
    /\ changes < MaxChanges
    /\ \E d \in Dirs :
          \E e \in fs[d].entries : fs' = [fs EXCEPT ![d].entries = @ \ {e}]
    /\ changes' = changes + 1
    /\ last' = [last EXCEPT !.fresh = FALSE]
    /\ UNCHANGED <<reg, kits, rootAtNew>>

\* The environment deletes a category directory with all it holds, replaces
\* it by a file or makes it unlistable (permission denied); or it creates an
\* empty directory where there was none.
FsSetKind ==
    /\ changes < MaxChanges
    /\ \E d \in Dirs, k \in {"missing", "file", "denied", "dir"} :
          /\ fs[d].kind # k
          /\ fs[d].kind = "dir" \/ k = "dir"
          /\ fs' = [fs EXCEPT ![d] = [kind |-> k, entries |-> {}]]
    /\ changes' = changes + 1
    /\ last' = [last EXCEPT !.fresh = FALSE]
    /\ UNCHANGED <<reg, kits, rootAtNew>>

Next ==
    \/ New
    \/ Path
    \/ GetDir
    \/ GetVersionDir
    \/ RegWrite
    \/ FsAdd
    \/ FsRemove
    \/ FsSetKind

Spec == Init /\ [][Next]_vars

(***************************************************************************)
(* The version selector on every listing: a resolver has been constructed  *)
(* on C:\Kits\10\, one of its category directories is any node (missing, a *)
(* file, unlistable, or a directory with up to MaxEntries entries of any    *)
(* names, kinds and readability), and get_version_dir is called on it.     *)
(***************************************************************************)
SelInit ==
    /\ reg = [kind |-> "sz", value |-> ROOT_C]
    /\ kits = [exists |-> TRUE, path |-> ROOT_C]
    /\ rootAtNew = ROOT_C
    /\ \E t \in DirectoryType :
       \E k \in {"missing", "file", "denied", "dir"} :
       \E S \in {X \in SUBSET Names : Cardinality(X) <= MaxEntries} :
       \E f \in [S -> Variants] :
          /\ k # "dir" => S = {}
          /\ fs = [d \in Dirs |->
                     IF d = Join(ROOT_C, Subdir(t))
                     THEN [kind |-> k, entries |-> {Entry(n, f[n]) : n \in S}]
                     ELSE Missing]
    /\ changes = 0
    /\ last = NoCall

SelNext == GetVersionDir

SelSpec == SelInit /\ [][SelNext]_vars

(***************************************************************************)
(* Properties.                                                             *)
(***************************************************************************)
\* The state is the one right after a call of get_version_dir.
AfterGvd == last.op = "get_version_dir" /\ last.fresh

\* The category directory of the call recorded in last, and its node.
CallDir == get_dir(kits, last.cat)

CallNode == Node(CallDir)

\* The entries of a node that are readable, whose name is text and starts
\* with "10.".
Candidates(n) ==
    {e \in n.entries : e.ok /\ IsUtf8(e.name) /\ StartsWith(e.name, PREFIX10)}

\* The entries of a node that cannot be read or whose name is no text.
Dropped(n) == {e \in n.entries : ~e.ok \/ ~IsUtf8(e.name)}

\* C1: when the category directory can be listed and has candidates (readable
\* entries whose name begins with "10."), get_version_dir returns the
\* candidate whose full path is the byte-wise greatest; it returns a path
\* only of a candidate (never 9.0 or notes.txt), and with 10.9 and 10.10 both
\* candidates it does not return 10.10, and returns 10.9 if they are the only
\* candidates.
C1_LexicographicMax ==
    (AfterGvd /\ CallNode.kind = "dir") =>
        LET C == Candidates(CallNode)
        IN /\ C # {} =>
                /\ last.res.tag = "Ok"
                /\ \E e \in C :
                      /\ last.res.path = Join(CallDir, e.name)
                      /\ \A x \in C :
                            CmpBytes(Join(CallDir, x.name), last.res.path) <= 0
           /\ last.res.tag = "Ok" =>
                /\ \E e \in C : last.res.path = Join(CallDir, e.name)
                /\ last.res.path \notin
                      {Join(CallDir, N_9_0), Join(CallDir, N_NOTES)}
           /\ {N_10_9, N_10_10} \subseteq {e.name : e \in C} =>
                last.res.path # Join(CallDir, N_10_10)
           /\ {e.name : e \in C} = {N_10_9, N_10_10} =>
                last.res = Ok(Join(CallDir, N_10_9))

\* A listing with 10.9, 10.10, and a non-candidate, resolved to 10.9.
C1_Witness ==
    /\ AfterGvd
    /\ {N_10_9, N_10_10} \subseteq {e.name : e \in Candidates(CallNode)}
    /\ CallNode.entries \ Candidates(CallNode) # {}
    /\ last.res = Ok(Join(CallDir, N_10_9))

\* C2: get_version_dir fails with IoError exactly when the category directory
\* cannot be enumerated (missing, not a directory, permission denied), and
\* with DirectoryNotFound exactly when it can be enumerated and has no
\* candidate.
C2_ErrorKinds ==
    AfterGvd =>
        /\ last.res.tag = "IoError" <=> CallNode.kind # "dir"
        /\ last.res.tag = "DirectoryNotFound" <=>
              (CallNode.kind = "dir" /\ Candidates(CallNode) = {})

\* A call on a directory that has entries, none a candidate.
C2_Witness ==
    /\ AfterGvd
    /\ last.res.tag = "DirectoryNotFound"
    /\ CallNode.kind = "dir"
    /\ \E e \in CallNode.entries : e.ok /\ e.name = N_9_0

\* The dotted numbers of a version name: Numbers splits s at the dots, n being
\* the number read so far.  NumericName: s holds digits and dots only.
NumericName(s) == \A i \in 1..Len(s) : s[i] = 46 \/ (s[i] >= 48 /\ s[i] <= 57)

RECURSIVE Numbers(_, _)
Numbers(s, n) ==
    IF s = <<>> THEN <<n>>
    ELSE IF Head(s) = 46 THEN <<n>> \o Numbers(Tail(s), 0)
    ELSE Numbers(Tail(s), 10 * n + (Head(s) - 48))

\* Versions compared number by number: -1, 0, 1.
RECURSIVE CmpNumbers(_, _)
CmpNumbers(a, b) ==
    IF a = <<>> /\ b = <<>> THEN 0
    ELSE IF a = <<>> THEN -1
    ELSE IF b = <<>> THEN 1
    ELSE IF Head(a) < Head(b) THEN -1
    ELSE IF Head(a) > Head(b) THEN 1
    ELSE CmpNumbers(Tail(a), Tail(b))

\* C4: among candidates with numeric version names, get_version_dir returns
\* the one whose version is greatest when the dotted components are compared
\* as numbers.
C4_HighestVersion ==
    (AfterGvd /\ CallNode.kind = "dir") =>
        LET C == Candidates(CallNode)
        IN (C # {} /\ \A e \in C : NumericName(e.name)) =>
              \E e \in C :
                 /\ last.res = Ok(Join(CallDir, e.name))
                 /\ \A x \in C :
                       CmpNumbers(Numbers(x.name, 0), Numbers(e.name, 0)) <= 0

\* C7: the path get_version_dir returns names a directory.
C7_ResultIsDirectory ==
    (AfterGvd /\ last.res.tag = "Ok") =>
        \E e \in CallNode.entries :
           last.res.path = Join(CallDir, e.name) /\ e.is_dir

\* The outcome for a set S of entries of directory d, all readable and named
\* by text: the entry with the greatest name among those starting with "10.".
OutcomeOf(d, S) ==
    LET V == {e \in S : StartsWith(e.name, PREFIX10)}
    IN IF V = {} THEN DirectoryNotFound
       ELSE Ok(Join(d, (CHOOSE e \in V :
                           \A x \in V : CmpBytes(x.name, e.name) <= 0).name))

\* C8: when the category directory can be listed and some of its entries
\* cannot be read or have a name that is no text, get_version_dir does not
\* fail with IoError: its outcome is that of the listing without those
\* entries.
C8_EntryErrorsDropped ==
    (AfterGvd /\ CallNode.kind = "dir" /\ Dropped(CallNode) # {}) =>
        /\ last.res.tag # "IoError"
        /\ last.res = OutcomeOf(CallDir, CallNode.entries \ Dropped(CallNode))

\* A listing whose greatest "10." names are dropped (one unreadable, one no
\* text) and which still resolves to a remaining entry.
C8_Witness ==
    /\ AfterGvd
    /\ last.res.tag = "Ok"
    /\ \E e \in CallNode.entries : ~e.ok /\ StartsWith(e.name, PREFIX10)
    /\ \E e \in CallNode.entries : e.ok /\ e.name = N_10_BAD

\* C9: on an unchanged filesystem the outcome of get_version_dir is the same
\* for every order in which the entries are enumerated, and a call repeated
\* for the same DirectoryType returns what the call before it returned.
C9_Deterministic ==
    AfterGvd =>
        /\ \A order \in Perms(CallNode.entries) :
              get_version_dir(kits, last.cat, order) = last.res
        /\ last.repeat # "differs"

\* A repeated call on a listing with several candidates.
C9_Witness ==
    /\ AfterGvd
    /\ last.repeat = "same"
    /\ Cardinality(Candidates(CallNode)) >= 2

\* The literal subdirectory names: "bin", "Include", "Lib".
Literal(t) ==
    CASE t = "Binaries" -> <<98, 105, 110>>
      [] t = "Headers" -> <<73, 110, 99, 108, 117, 100, 101>>
      [] t = "Libraries" -> <<76, 105, 98>>

\* C3: get_dir never fails and returns the root read at construction joined
\* with "bin", "Include" or "Lib": the root, one separator between the two
\* unless the root ends with one, and the literal; whatever the filesystem
\* holds.
C3_GetDirJoin ==
    last.op = "get_dir" =>
        /\ last.res.tag = "Ok"
        /\ StartsWith(last.res.path, rootAtNew)
        /\ Components(last.res.path)
              = Components(rootAtNew) \o <<Literal(last.cat)>>
        /\ Len(last.res.path) - Len(rootAtNew) - Len(Literal(last.cat))
              = (IF IsSep(rootAtNew[Len(rootAtNew)]) THEN 0 ELSE 1)

\* get_dir(Headers) called while the directory it names does not exist.
C3_Witness ==
    /\ last.op = "get_dir"
    /\ last.fresh
    /\ last.cat = "Headers"
    /\ Node(last.res.path).kind = "missing"

\* C5: new() reads the registry once (each registry operation at most once);
\* right after it, a resolver exists exactly when the registry holds a string
\* for KitsRoot10, it holds that string, and otherwise the result is IoError;
\* while no resolver exists no query has been called.
C5_AllOrNothing ==
    /\ (last.op = "new" /\ last.fresh) =>
          /\ last.reads \in {<<"open_subkey">>, <<"open_subkey", "get_value">>}
          /\ reg.kind = "sz" =>
                (last.res = Ok(reg.value) /\ kits.exists /\ kits.path = reg.value)
          /\ reg.kind # "sz" => (last.res = IoError /\ ~kits.exists)
    /\ last.op = "new" => (last.res.tag = "Ok" <=> kits.exists)
    /\ ~kits.exists => last.op \in {"none", "new"}

\* new() has failed on a value of the wrong type; no resolver exists.
C5_Witness ==
    /\ last.op = "new"
    /\ last.fresh
    /\ reg.kind = "wrong_type"
    /\ last.res = IoError
    /\ ~kits.exists

\* C6: once a resolver exists its root is the one read at construction, and
\* path() returns it, whatever the registry and the filesystem have become.
C6_RootImmutable ==
    /\ kits.exists => kits.path = rootAtNew
    /\ last.op = "path" => last.res = Ok(rootAtNew)
    /\ (last.op \in {"get_dir", "get_version_dir"} /\ last.res.tag = "Ok") =>
          StartsWith(last.res.path, rootAtNew)

\* path() called when the registry names another root than at construction
\* and the filesystem has changed.
C6_Witness ==
    /\ last.op = "path"
    /\ last.fresh
    /\ reg.kind = "sz"
    /\ reg.value # rootAtNew
    /\ \E d \in Dirs : fs[d] # (IF StartsWith(d, ROOT_C) THEN EmptyDir ELSE Missing)

\* The outcome the current state of the category directory of t under root r
\* determines.
OutcomeNow(r, t) ==
    LET d == Join(r, Literal(t))
    IN IF Node(d).kind # "dir" THEN IoError
       ELSE OutcomeOf(d, Node(d).entries \ Dropped(Node(d)))

\* C10: every call of get_version_dir returns the outcome that the state of
\* its category directory at the time of the call determines, whatever
\* earlier calls returned and whatever the other directories hold.
C10_NeverCached ==
    AfterGvd => last.res = OutcomeNow(rootAtNew, last.cat)

\* A call that returns something else than the call before it for the same
\* DirectoryType: the directory changed in between.
C10_Witness ==
    /\ AfterGvd
    /\ last.repeat = "differs"
    /\ last.res.tag = "Ok"

====
